---- MODULE Spec2Model ----
(***************************************************************************)
(* Model of kixxy.py: the call-log analysis pass (analyze_calls), the      *)
(* report (print_report), the CSV export (export_csv) and the duration     *)
(* codecs (parse_duration, format_duration).                               *)
(*                                                                         *)
(* Text that the code takes apart character by character (Duration,        *)
(* To Number) is a sequence of one-character strings; text the code only   *)
(* compares for equality (agent, disposition, status, ...) is a string.    *)
(* A Date cell is a record of the fields strptime reads.  A parsed         *)
(* datetime is the number of minutes since 2024-01-01 00:00 (a Monday);    *)
(* an optional value is <<>> (None) or <<v>>.                              *)
(***************************************************************************)
EXTENDS Integers, Sequences, FiniteSets, TLC

VARIABLES pc, error, fieldnames, data, history, returned, report, csvout,
          text, parsed, amount

vars == <<pc, error, fieldnames, data, history, returned, report, csvout,
          text, parsed, amount>>

(***************************************************************************)
(* Bounds of the model.                                                    *)
(***************************************************************************)
\* longest input file, in rows
MaxRows == 3
\* longest duration text enumerated for parse_duration
MaxLen == 5
MaxSeconds == 7325

None == <<>>
Some(v) == <<v>>
Val(o) == o[1]

(***************************************************************************)
(* Text helpers.                                                           *)
(***************************************************************************)
Digits == <<"0", "1", "2", "3", "4", "5", "6", "7", "8", "9">>

IsDigit(c) == \E i \in 1..10 : Digits[i] = c

DigitVal(c) == (CHOOSE i \in 1..10 : Digits[i] = c) - 1

\* str.split(':') : the parts between the colons, empty parts kept
RECURSIVE Split(_)
Split(s) ==
    IF \A i \in 1..Len(s) : s[i] # ":" THEN << s >>
    ELSE LET k == CHOOSE i \in 1..Len(s) :
                      s[i] = ":" /\ \A j \in 1..(i-1) : s[j] # ":"
         IN  << SubSeq(s, 1, k-1) >> \o Split(SubSeq(s, k+1, Len(s)))

RECURSIVE DecValue(_)
DecValue(s) ==
    IF s = <<>> THEN 0
    ELSE 10 * DecValue(SubSeq(s, 1, Len(s)-1)) + DigitVal(s[Len(s)])

AllDigits(s) == s # <<>> /\ \A i \in 1..Len(s) : IsDigit(s[i])

\* int(s) raises ValueError unless s is an optional sign and decimal digits
IntOk(s) ==
    \/ AllDigits(s)
    \/ Len(s) >= 2 /\ s[1] \in {"-", "+"} /\ AllDigits(Tail(s))

IntValue(s) ==
    IF s[1] = "-" THEN 0 - DecValue(Tail(s))
    ELSE IF s[1] = "+" THEN DecValue(Tail(s))
    ELSE DecValue(s)

(***************************************************************************)
(* parse_duration: [raised, value].  raised stands for the ValueError of   *)
(* int() leaving the function.                                             *)
(***************************************************************************)
Returned(v) == [raised |-> FALSE, value |-> v]
Raised == [raised |-> TRUE, value |-> 0]

parse_duration(duration_str) ==
    IF duration_str = <<>> \/ duration_str = <<"0">> THEN Returned(0)
    ELSE LET parts == Split(duration_str) IN
         IF Len(parts) = 2 THEN
             IF IntOk(parts[1]) /\ IntOk(parts[2])
             THEN Returned(IntValue(parts[1]) * 60 + IntValue(parts[2]))
             ELSE Raised
         ELSE IF Len(parts) = 3 THEN
             IF IntOk(parts[1]) /\ IntOk(parts[2]) /\ IntOk(parts[3])
             THEN Returned(IntValue(parts[1]) * 3600 + IntValue(parts[2]) * 60
                           + IntValue(parts[3]))
             ELSE Raised
         ELSE Returned(0)

\* str(n) for n >= 0
RECURSIVE DecText(_)
DecText(n) ==
    IF n < 10 THEN << Digits[n+1] >>
    ELSE DecText(n \div 10) \o << Digits[(n % 10) + 1] >>

\* f"{n:02d}" for n >= 0
Pad2(n) == IF n < 10 THEN <<"0">> \o DecText(n) ELSE DecText(n)

\* the text with the minutes not reduced to those of the last hour
format_duration_all_minutes(seconds) ==
    LET hours == seconds \div 3600
        minutes == seconds \div 60
        secs == seconds % 60
    IN  IF hours > 0
        THEN DecText(hours) \o <<":">> \o Pad2(minutes) \o <<":">> \o Pad2(secs)
        ELSE DecText(minutes) \o <<":">> \o Pad2(secs)

format_duration(seconds) ==
    LET hours == seconds \div 3600
        minutes == (seconds % 3600) \div 60
        secs == seconds % 60
    IN  IF hours > 0
        THEN DecText(hours) \o <<":">> \o Pad2(minutes) \o <<":">> \o Pad2(secs)
        ELSE DecText(minutes) \o <<":">> \o Pad2(secs)

(***************************************************************************)
(* Dates.  The calendar modelled is the year 2024.                         *)
(***************************************************************************)
DaysInMonth == <<31, 29, 31, 30, 31, 30, 31, 31, 30, 31, 30, 31>>

RECURSIVE DaysBefore(_)
DaysBefore(m) == IF m = 1 THEN 0 ELSE DaysBefore(m-1) + DaysInMonth[m-1]

\* a Date cell written as MM/DD/YYYY, HH:MM AP
Stamp(mm, dd, hh, mi, ap) ==
    [shape |-> "stamp", mm |-> mm, dd |-> dd, yyyy |-> 2024,
     hh |-> hh, mi |-> mi, ap |-> ap]

\* a Date cell of any other shape (empty, free text)
NoStamp == [shape |-> "other", mm |-> 0, dd |-> 0, yyyy |-> 0,
            hh |-> 0, mi |-> 0, ap |-> ""]

\* datetime.strptime(s, "%m/%d/%Y, %I:%M %p"), None on any failure
parse_date(date_str) ==
    IF /\ date_str.shape = "stamp"
       /\ date_str.yyyy = 2024
       /\ date_str.mm \in 1..12
       /\ date_str.dd \in 1..DaysInMonth[date_str.mm]
       /\ date_str.hh \in 1..12
       /\ date_str.mi \in 0..59
       /\ date_str.ap \in {"AM", "PM"}
    THEN Some((DaysBefore(date_str.mm) + date_str.dd - 1) * 1440
              + ((date_str.hh % 12) + (IF date_str.ap = "PM" THEN 12 ELSE 0)) * 60
              + date_str.mi)
    ELSE None

\* datetime.hour
HourOf(dt) == (dt % 1440) \div 60

\* datetime.weekday(): Monday = 0
WeekdayOf(dt) == (dt \div 1440) % 7

DayNames == <<"Monday", "Tuesday", "Wednesday", "Thursday", "Friday",
              "Saturday", "Sunday">>

\* strftime('%A')
DayName(dt) == DayNames[WeekdayOf(dt) + 1]

\* strftime('%Y-%m-%d'): the text of the calendar day, as <<year, month, day>>
DateKey(dt) ==
    LET ord == dt \div 1440
        m == CHOOSE k \in 1..12 :
                 DaysBefore(k) <= ord /\ ord < DaysBefore(k) + DaysInMonth[k]
    IN  <<2024, m, ord - DaysBefore(m) + 1>>

\* datetime.strptime(date_key, '%Y-%m-%d'): midnight of that day
KeyDate(date_key) == (DaysBefore(date_key[2]) + date_key[3] - 1) * 1440

\* datetime.timestamp(), in seconds since 2024-01-01 00:00, in a zone whose
\* offset from UTC does not change (timestamp() reads a naive datetime as
\* local time; in a zone with daylight saving two local times an hour apart
\* can be any of 0, 1 or 2 hours apart as timestamps)
Timestamp(dt) == dt * 60

(***************************************************************************)
(* get_area_code                                                           *)
(***************************************************************************)
RECURSIVE OnlyDigits(_)
OnlyDigits(s) ==
    IF s = <<>> THEN <<>>
    ELSE (IF IsDigit(Head(s)) THEN <<Head(s)>> ELSE <<>>) \o OnlyDigits(Tail(s))

Unknown == <<"U", "n", "k", "n", "o", "w", "n">>

get_area_code(phone_number) ==
    LET digits == OnlyDigits(phone_number) IN
    IF Len(digits) >= 10
    THEN IF digits[1] = "1" THEN SubSeq(digits, 2, 4) ELSE SubSeq(digits, 1, 3)
    ELSE Unknown

(***************************************************************************)
(* defaultdict: a function whose domain is the set of keys created so far. *)
(***************************************************************************)
EmptyTable == <<>>

\* t[k] of a defaultdict, read without creating the key
Get(t, k, default) == IF k \in DOMAIN t THEN t[k] ELSE default

\* t[k] = v
Put(t, k, v) == [x \in (DOMAIN t) \cup {k} |-> IF x = k THEN v ELSE t[x]]

\* the defaultdict after reading t[k]: a missing key is created with the default
Touch(t, k, default) == IF k \in DOMAIN t THEN t ELSE Put(t, k, default)

RECURSIVE SumOver(_, _, _)
\* sum of t[k][field] over the keys in ks
SumOver(t, ks, field) ==
    IF ks = {} THEN 0
    ELSE LET k == CHOOSE x \in ks : TRUE
         IN  t[k][field] + SumOver(t, ks \ {k}, field)

(***************************************************************************)
(* The input file: a header (the column names csv.DictReader found) and    *)
(* rows.  A row is a record of its cells.                                  *)
(***************************************************************************)
AllColumns == {"Agent First Name", "Disposition", "Duration", "Type", "Status",
               "Source", "Source Link", "To Number", "Date", "CRM Link",
               "CRM Contact ID"}

\* headers of the files read: complete, without one column the pass indexes
\* with row[...], and without the columns it reads with row.get(...)
Headers == {AllColumns,
            AllColumns \ {"Duration"},
            AllColumns \ {"Date"},
            AllColumns \ {"Source Link", "To Number", "CRM Link", "CRM Contact ID"}}

Phone555 == <<"+", "1", " ", "(", "5", "5", "5", ")", " ", "1", "2", "3", "-",
              "4", "5", "6", "7">>
Phone212 == <<"2", "1", "2", "5", "5", "5", "0", "1", "0", "0">>
PhoneShort == <<"1", "2", "3">>

Row(agent, disposition, status, type, duration, source, link, number, date) ==
    [agent |-> agent, disposition |-> disposition, status |-> status,
     type |-> type, duration |-> duration, source |-> source,
     source_link |-> link, to_number |-> number, date |-> date,
     crm_link |-> IF disposition = "Interested" THEN "crm/" \o agent ELSE "",
     crm_contact_id |-> IF disposition = "Interested" THEN "7" ELSE ""]

\* the rows a file is made of
Rows == <<
    Row("Ann", "Interested", "Answered", "Outgoing", <<"2", ":", "0", "0">>,
        "Web", "fall", Phone555, Stamp(1, 1, 10, 0, "AM")),
    Row("Ann", "Interested", "Missed", "Outgoing", <<"0", ":", "4", "5">>,
        "Web", "fall", Phone555, Stamp(1, 1, 10, 0, "AM")),
    Row("Ann", "Voicemail", "Missed", "Outgoing", <<"0", ":", "4", "5">>,
        "Web", "", Phone212, Stamp(1, 1, 10, 5, "AM")),
    Row("Ann", "Voicemail", "Answered", "Outgoing", <<"2", ":", "0", "0">>,
        "Web", "fall", Phone212, Stamp(1, 1, 10, 5, "AM")),
    Row("Bob", "", "Answered", "Incoming", <<"1", ":", "3", "0">>,
        "", "spring", PhoneShort, Stamp(1, 1, 9, 55, "AM")),
    Row("Ann", "Not Interested", "Answered", "Incoming",
        <<"1", ":", "0", "5", ":", "3", "0">>,
        "Web", "fall", Phone555, Stamp(1, 1, 9, 55, "AM")),
    Row("Bob", "Bad Number", "Answered", "Outgoing", <<"1", ":", "3", "0">>,
        "Referral", "", PhoneShort, Stamp(1, 6, 9, 0, "AM")),
    Row("Ann", "No Call Outcome", "Missed", "Outgoing", <<"0">>,
        "Web", "fall", Phone555, Stamp(1, 1, 14, 0, "PM")),
    Row("Ann", "Interested", "Answered", "Outgoing", <<"2", ":", "0", "0">>,
        "", "", <<>>, NoStamp),
    Row("Ann", "Not Interested", "Answered", "Outgoing", <<"a", ":", "b">>,
        "Web", "fall", Phone555, Stamp(1, 1, 10, 0, "AM")),
    Row("Ann", "Not Interested", "Answered", "Outgoing",
        <<"-", "1", ":", "0", "0">>,
        "Web", "fall", Phone555, Stamp(1, 1, 10, 5, "AM")),
    Row("Bob", "Interested", "Answered", "Outgoing", <<"0", ":", "4", "5">>,
        "Referral", "spring", Phone212, Stamp(1, 9, 12, 0, "PM"))
>>

\* x or default
OrElse(x, default) == IF x = "" THEN default ELSE x

\* the locals of one turn of the loop, or the exception that ends it:
\* row[...] of a column the header lacks is a KeyError, row.get(...) of one
\* is '', and parse_duration may raise ValueError
Normalize(row, cols) ==
    IF ~ ({"Agent First Name", "Disposition", "Duration"} \subseteq cols)
    THEN [error |-> "KeyError"]
    ELSE IF parse_duration(row.duration).raised
    THEN [error |-> "ValueError", agent |-> row.agent]
    ELSE IF ~ ({"Type", "Status", "Source", "Date"} \subseteq cols)
    THEN [error |-> "KeyError"]
    ELSE LET disposition == OrElse(row.disposition, "Unknown")
         IN  [error |-> "",
              agent |-> row.agent,
              disposition |-> disposition,
              duration |-> parse_duration(row.duration).value,
              call_type |-> row.type,
              status |-> row.status,
              source |-> OrElse(row.source, "Unknown"),
              campaign |-> OrElse(IF "Source Link" \in cols THEN row.source_link
                                  ELSE "", "No Campaign"),
              to_number |-> IF "To Number" \in cols THEN row.to_number ELSE <<>>,
              date_obj |-> parse_date(row.date),
              is_interested |-> disposition = "Interested",
              is_voicemail |-> disposition = "Voicemail",
              is_live_answer |->
                  /\ row.status = "Answered"
                  /\ disposition \notin {"Voicemail", "No Call Outcome", "Bad Number"},
              date_text |-> row.date,
              duration_text |-> row.duration,
              crm_link |-> IF "CRM Link" \in cols THEN row.crm_link ELSE "",
              crm_contact_id |-> IF "CRM Contact ID" \in cols
                                 THEN row.crm_contact_id ELSE ""]

(***************************************************************************)
(* analyze_calls: the accumulators and one turn of the loop.               *)
(***************************************************************************)
AgentDefault == [total_calls |-> 0, total_duration |-> 0,
                 dispositions |-> EmptyTable, call_types |-> EmptyTable,
                 statuses |-> EmptyTable]
DispositionDefault == [count |-> 0, total_duration |-> 0]
SourceDefault == [total |-> 0, interested |-> 0, answered |-> 0, voicemail |-> 0]
TimeDefault == [total |-> 0, answered |-> 0, interested |-> 0, live_answer |-> 0]
CampaignDefault == [total |-> 0, interested |-> 0, answered |-> 0, voicemail |-> 0,
                    not_interested |-> 0, duration |-> 0]
AreaDefault == [total |-> 0, live_answer |-> 0, voicemail |-> 0]
DailyDefault == [total |-> 0, interested |-> 0, duration |-> 0]
SessionDefault == [first_call |-> None, last_call |-> None,
                   last_call_duration |-> 0, talk_time |-> 0]

\* the tables as analyze_calls creates them
InitialData ==
    [agents |-> EmptyTable,
     dispositions |-> EmptyTable,
     overall_stats |-> [total_calls |-> 0, total_duration |-> 0, answered |-> 0,
                        missed |-> 0, incoming |-> 0, outgoing |-> 0,
                        interested |-> 0],
     sources |-> EmptyTable,
     hourly_stats |-> EmptyTable,
     day_of_week_stats |-> EmptyTable,
     campaigns |-> EmptyTable,
     area_codes |-> EmptyTable,
     daily_conversions |-> EmptyTable,
     min_date |-> None,
     max_date |-> None,
     interested_leads |-> <<>>,
     agent_daily_sessions |-> EmptyTable]

\* 1 if the condition holds: the increment under an if
If1(b) == IF b THEN 1 ELSE 0

\* d[k] += 1 of a defaultdict(int)
Count(d, k) == Put(d, k, Get(d, k, 0) + 1)

\* the agent row with the per-disposition count set, not incremented
AgentStatsAssign(acc, n) ==
    LET a == Get(acc.agents, n.agent, AgentDefault) IN
    [acc EXCEPT !.agents = Put(@, n.agent,
        [total_calls |-> a.total_calls + 1,
         total_duration |-> a.total_duration + n.duration,
         dispositions |-> Put(a.dispositions, n.disposition, 1),
         call_types |-> Count(a.call_types, n.call_type),
         statuses |-> Count(a.statuses, n.status)])]

AgentStats(acc, n) ==
    LET a == Get(acc.agents, n.agent, AgentDefault) IN
    [acc EXCEPT !.agents = Put(@, n.agent,
        [total_calls |-> a.total_calls + 1,
         total_duration |-> a.total_duration + n.duration,
         dispositions |-> Count(a.dispositions, n.disposition),
         call_types |-> Count(a.call_types, n.call_type),
         statuses |-> Count(a.statuses, n.status)])]

\* the disposition table with the count set, not incremented
DispositionStatsAssign(acc, n) ==
    LET d == Get(acc.dispositions, n.disposition, DispositionDefault) IN
    [acc EXCEPT !.dispositions = Put(@, n.disposition,
        [count |-> 1, total_duration |-> d.total_duration + n.duration])]

DispositionStats(acc, n) ==
    LET d == Get(acc.dispositions, n.disposition, DispositionDefault) IN
    [acc EXCEPT !.dispositions = Put(@, n.disposition,
        [count |-> d.count + 1, total_duration |-> d.total_duration + n.duration])]

\* the overall totals with total_duration set to the row's duration
OverallStatsAssign(acc, n) ==
    LET o == acc.overall_stats IN
    [acc EXCEPT !.overall_stats =
        [total_calls |-> o.total_calls + 1,
         total_duration |-> n.duration,
         answered |-> o.answered + If1(n.status = "Answered"),
         missed |-> o.missed + If1(n.status # "Answered"),
         incoming |-> o.incoming + If1(n.call_type = "Incoming"),
         outgoing |-> o.outgoing + If1(n.call_type # "Incoming"),
         interested |-> o.interested + If1(n.is_interested)]]

OverallStats(acc, n) ==
    LET o == acc.overall_stats IN
    [acc EXCEPT !.overall_stats =
        [total_calls |-> o.total_calls + 1,
         total_duration |-> o.total_duration + n.duration,
         answered |-> o.answered + If1(n.status = "Answered"),
         missed |-> o.missed + If1(n.status # "Answered"),
         incoming |-> o.incoming + If1(n.call_type = "Incoming"),
         outgoing |-> o.outgoing + If1(n.call_type # "Incoming"),
         interested |-> o.interested + If1(n.is_interested)]]

SourceStats(acc, n) ==
    LET s == Get(acc.sources, n.source, SourceDefault) IN
    [acc EXCEPT !.sources = Put(@, n.source,
        [total |-> s.total + 1,
         interested |-> s.interested + If1(n.is_interested),
         answered |-> s.answered + If1(n.status = "Answered"),
         voicemail |-> s.voicemail + If1(n.is_voicemail)])]

\* the date range with min_date kept once it is set
DateRangeFirstSeen(acc, date_obj) ==
    LET lo == IF acc.min_date = None
              THEN Some(date_obj) ELSE acc.min_date
        hi == IF acc.max_date = None \/ date_obj > Val(acc.max_date)
              THEN Some(date_obj) ELSE acc.max_date
    IN  [acc EXCEPT !.min_date = lo, !.max_date = hi]

DateRange(acc, date_obj) ==
    LET lo == IF acc.min_date = None \/ date_obj < Val(acc.min_date)
              THEN Some(date_obj) ELSE acc.min_date
        hi == IF acc.max_date = None \/ date_obj > Val(acc.max_date)
              THEN Some(date_obj) ELSE acc.max_date
    IN  [acc EXCEPT !.min_date = lo, !.max_date = hi]

\* one row of hourly_stats or day_of_week_stats
TimeRow(t, n) ==
    [total |-> t.total + 1,
     answered |-> t.answered + If1(n.status = "Answered"),
     interested |-> t.interested + If1(n.is_interested),
     live_answer |-> t.live_answer + If1(n.is_live_answer)]

HourlyStats(acc, n, date_obj) ==
    [acc EXCEPT !.hourly_stats = Put(@, HourOf(date_obj),
        TimeRow(Get(acc.hourly_stats, HourOf(date_obj), TimeDefault), n))]

DayOfWeekStats(acc, n, date_obj) ==
    [acc EXCEPT !.day_of_week_stats = Put(@, DayName(date_obj),
        TimeRow(Get(acc.day_of_week_stats, DayName(date_obj), TimeDefault), n))]

DailyConversions(acc, n, date_obj) ==
    LET d == Get(acc.daily_conversions, DateKey(date_obj), DailyDefault) IN
    [acc EXCEPT !.daily_conversions = Put(@, DateKey(date_obj),
        [total |-> d.total + 1,
         interested |-> d.interested + If1(n.is_interested),
         duration |-> d.duration + n.duration])]

\* the session with a call that ties the latest one taking its place
UpdateSessionLastTie(session, date_obj, duration) ==
    LET s1 == IF session.first_call = None \/ date_obj < Val(session.first_call)
              THEN [session EXCEPT !.first_call = Some(date_obj)] ELSE session
        s2 == IF s1.last_call = None \/ date_obj >= Val(s1.last_call)
              THEN [s1 EXCEPT !.last_call = Some(date_obj),
                              !.last_call_duration = duration]
              ELSE s1
    IN  [s2 EXCEPT !.talk_time = @ + duration]

\* the session with last_call_duration captured on first sighting only
UpdateSessionStaleDuration(session, date_obj, duration) ==
    LET s1 == IF session.first_call = None \/ date_obj < Val(session.first_call)
              THEN [session EXCEPT !.first_call = Some(date_obj)] ELSE session
        s2 == IF s1.last_call = None
              THEN [s1 EXCEPT !.last_call = Some(date_obj),
                              !.last_call_duration = duration]
              ELSE IF date_obj > Val(s1.last_call)
              THEN [s1 EXCEPT !.last_call = Some(date_obj)]
              ELSE s1
    IN  [s2 EXCEPT !.talk_time = @ + duration]

\* the session with the two comparisons exchanged
UpdateSessionSwapped(session, date_obj, duration) ==
    LET s1 == IF session.first_call = None \/ date_obj > Val(session.first_call)
              THEN [session EXCEPT !.first_call = Some(date_obj)] ELSE session
        s2 == IF s1.last_call = None \/ date_obj < Val(s1.last_call)
              THEN [s1 EXCEPT !.last_call = Some(date_obj),
                              !.last_call_duration = duration]
              ELSE s1
    IN  [s2 EXCEPT !.talk_time = @ + duration]

\* the session with talk_time added only for a call that becomes the first
\* or the last of the day
UpdateSessionTalkAtEnds(session, date_obj, duration) ==
    LET s1 == IF session.first_call = None \/ date_obj < Val(session.first_call)
              THEN [session EXCEPT !.first_call = Some(date_obj)] ELSE session
        s2 == IF s1.last_call = None \/ date_obj > Val(s1.last_call)
              THEN [s1 EXCEPT !.last_call = Some(date_obj),
                              !.last_call_duration = duration]
              ELSE s1
    IN  IF s2.first_call # session.first_call \/ s2.last_call # session.last_call
        THEN [s2 EXCEPT !.talk_time = @ + duration]
        ELSE s2

UpdateSession(session, date_obj, duration) ==
    LET s1 == IF session.first_call = None \/ date_obj < Val(session.first_call)
              THEN [session EXCEPT !.first_call = Some(date_obj)] ELSE session
        s2 == IF s1.last_call = None \/ date_obj > Val(s1.last_call)
              THEN [s1 EXCEPT !.last_call = Some(date_obj),
                              !.last_call_duration = duration]
              ELSE s1
    IN  [s2 EXCEPT !.talk_time = @ + duration]

SessionStats(acc, n, date_obj) ==
    LET sessions == Get(acc.agent_daily_sessions, n.agent, EmptyTable)
        session == Get(sessions, DateKey(date_obj), SessionDefault)
    IN  [acc EXCEPT !.agent_daily_sessions = Put(@, n.agent,
            Put(sessions, DateKey(date_obj),
                UpdateSession(session, date_obj, n.duration)))]

\* if date_obj: ...
TimeBased(acc, n) ==
    IF n.date_obj = None THEN acc
    ELSE LET date_obj == Val(n.date_obj) IN
         SessionStats(
           DailyConversions(
             DayOfWeekStats(
               HourlyStats(DateRange(acc, date_obj), n, date_obj),
               n, date_obj),
             n, date_obj),
           n, date_obj)

\* the leads with one entry per phone number: a number seen before is skipped
InterestedLeadsOnce(acc, n) ==
    IF n.is_interested
       /\ \A k \in 1..Len(acc.interested_leads) :
              acc.interested_leads[k].to_number # n.to_number
    THEN [acc EXCEPT !.interested_leads = Append(@,
            [date |-> n.date_text, to_number |-> n.to_number,
             crm_link |-> n.crm_link, crm_contact_id |-> n.crm_contact_id,
             duration |-> n.duration_text, campaign |-> n.campaign])]
    ELSE acc

InterestedLeads(acc, n) ==
    IF n.is_interested
    THEN [acc EXCEPT !.interested_leads = Append(@,
            [date |-> n.date_text, to_number |-> n.to_number,
             crm_link |-> n.crm_link, crm_contact_id |-> n.crm_contact_id,
             duration |-> n.duration_text, campaign |-> n.campaign])]
    ELSE acc

CampaignStats(acc, n) ==
    LET c == Get(acc.campaigns, n.campaign, CampaignDefault) IN
    [acc EXCEPT !.campaigns = Put(@, n.campaign,
        [total |-> c.total + 1,
         interested |-> c.interested + If1(n.is_interested),
         answered |-> c.answered + If1(n.status = "Answered"),
         voicemail |-> c.voicemail + If1(n.is_voicemail),
         not_interested |-> c.not_interested + If1(n.disposition = "Not Interested"),
         duration |-> c.duration + n.duration])]

AreaCodeStats(acc, n) ==
    LET area_code == get_area_code(n.to_number)
        a == Get(acc.area_codes, area_code, AreaDefault)
    IN  [acc EXCEPT !.area_codes = Put(@, area_code,
            [total |-> a.total + 1,
             live_answer |-> a.live_answer + If1(n.is_live_answer),
             voicemail |-> a.voicemail + If1(n.is_voicemail)])]

\* the campaign and area-code blocks indented under "if date_obj:"
CampaignAndAreaIfDated(acc, n) ==
    IF n.date_obj = None THEN acc ELSE AreaCodeStats(CampaignStats(acc, n), n)

CampaignAndArea(acc, n) == AreaCodeStats(CampaignStats(acc, n), n)

\* the updates of one row whose locals were computed
Accumulate(acc, n) ==
    CampaignAndArea(
      InterestedLeads(
        TimeBased(
          SourceStats(OverallStats(DispositionStats(AgentStats(acc, n), n), n), n),
          n),
        n),
      n)

\* one turn of the loop with the duration parsed only after the agent's
\* call count was incremented
FoldCountFirst(acc, n) ==
    IF n.error = "ValueError"
    THEN LET a == Get(acc.agents, n.agent, AgentDefault) IN
         [acc EXCEPT !.agents = Put(@, n.agent,
                                    [a EXCEPT !.total_calls = @ + 1])]
    ELSE IF n.error # "" THEN acc
    ELSE Accumulate(acc, n)

\* one turn of the loop: the tables after it.  An exception leaves the loop
\* before the first update.
Fold(acc, n) == IF n.error # "" THEN acc ELSE Accumulate(acc, n)

(***************************************************************************)
(* print_report                                                            *)
(***************************************************************************)
\* the (agent, date_key) pairs of agent_daily_sessions
SessionPairs(sessions) ==
    UNION {{<<a, k>> : k \in DOMAIN sessions[a]} : a \in DOMAIN sessions}

HasCalls(session) == session.first_call # None /\ session.last_call # None

\* last_call.timestamp() + last_call_duration - first_call.timestamp()
SessionSeconds(session) ==
    Timestamp(Val(session.last_call)) + session.last_call_duration
    - Timestamp(Val(session.first_call))

\* num / den * 100 if den > 0 else 0, in whole percents
Percent(num, den) == IF den > 0 THEN (num * 100) \div den ELSE 0

RECURSIVE TotalPhoneTime(_, _)
TotalPhoneTime(sessions, pairs) ==
    IF pairs = {} THEN 0
    ELSE LET p == CHOOSE x \in pairs : TRUE
             session == sessions[p[1]][p[2]]
         IN  (IF HasCalls(session) THEN SessionSeconds(session) ELSE 0)
             + TotalPhoneTime(sessions, pairs \ {p})

WeekDefault == [phone_time |-> 0, talk_time |-> 0, days_worked |-> {}]

\* the weekly table after one agent-day session, weekends not skipped
WeeklyAddAll(weekly, date_key, session) ==
    IF ~ HasCalls(session) THEN weekly
    ELSE LET date_obj == KeyDate(date_key)
             week_key == DateKey(date_obj - WeekdayOf(date_obj) * 1440)
             w == Get(weekly, week_key, WeekDefault)
         IN  Put(weekly, week_key,
                 [phone_time |-> w.phone_time + SessionSeconds(session),
                  talk_time |-> w.talk_time + session.talk_time,
                  days_worked |-> w.days_worked \cup {date_key}])

\* the weekly table after one agent-day session, keyed by the session's date
WeeklyAddByDay(weekly, date_key, session) ==
    IF ~ HasCalls(session) THEN weekly
    ELSE LET date_obj == KeyDate(date_key) IN
         IF WeekdayOf(date_obj) >= 5 THEN weekly
         ELSE LET w == Get(weekly, date_key, WeekDefault)
              IN  Put(weekly, date_key,
                      [phone_time |-> w.phone_time + SessionSeconds(session),
                       talk_time |-> w.talk_time + session.talk_time,
                       days_worked |-> w.days_worked \cup {date_key}])

\* the weekly table after one agent-day session
WeeklyAdd(weekly, date_key, session) ==
    IF ~ HasCalls(session) THEN weekly
    ELSE LET date_obj == KeyDate(date_key) IN
         IF WeekdayOf(date_obj) >= 5 THEN weekly
         ELSE LET week_key == DateKey(date_obj - WeekdayOf(date_obj) * 1440)
                  w == Get(weekly, week_key, WeekDefault)
              IN  Put(weekly, week_key,
                      [phone_time |-> w.phone_time + SessionSeconds(session),
                       talk_time |-> w.talk_time + session.talk_time,
                       days_worked |-> w.days_worked \cup {date_key}])

RECURSIVE WeeklySessions(_, _, _)
WeeklySessions(sessions, pairs, weekly) ==
    IF pairs = {} THEN weekly
    ELSE LET p == CHOOSE x \in pairs : TRUE
         IN  WeeklySessions(sessions, pairs \ {p},
                            WeeklyAdd(weekly, p[2], sessions[p[1]][p[2]]))

\* the rows of the agent session tables
SessionRows(sessions) ==
    [p \in {x \in SessionPairs(sessions) : HasCalls(sessions[x[1]][x[2]])} |->
        LET session == sessions[p[1]][p[2]] IN
        [first_call |-> Val(session.first_call),
         last_call |-> Val(session.last_call),
         session_seconds |-> SessionSeconds(session),
         talk_seconds |-> session.talk_time,
         efficiency |-> Percent(session.talk_time, SessionSeconds(session))]]

\* the dispositions table after the funnel section indexed it
FunnelTouch(dispositions) ==
    Touch(Touch(Touch(dispositions, "Voicemail", DispositionDefault),
                "Bad Number", DispositionDefault),
          "No Call Outcome", DispositionDefault)

\* section 6 of the report
Funnel(d) ==
    LET dispositions == FunnelTouch(d.dispositions)
        answered == d.overall_stats.answered
        not_voicemail == answered - dispositions["Voicemail"].count
        not_bad == not_voicemail - dispositions["Bad Number"].count
                   - dispositions["No Call Outcome"].count
    IN  [total_calls |-> d.overall_stats.total_calls,
         connected |-> answered,
         live |-> not_bad,
         interested |-> d.overall_stats.interested]

NoReport ==
    [raised |-> FALSE, date_range |-> None, total_records |-> 0,
     total_phone_time |-> 0, weekly |-> EmptyTable, funnel |-> None,
     sessions |-> EmptyTable, dispositions |-> {}, leads |-> 0]

\* what print_report prints of the header: the date range (its number of
\* days) if there is one, and the number of records
ReportHeader(d) ==
    [NoReport EXCEPT
        !.date_range = IF d.min_date # None /\ d.max_date # None
                       THEN Some((Val(d.max_date) - Val(d.min_date)) \div 1440 + 1)
                       ELSE None,
        !.total_records = d.overall_stats.total_calls]

\* print_report(data): the report, and data as the call leaves it.  The first
\* percentage of the summary divides by total_calls.
print_report(d) ==
    IF d.overall_stats.total_calls = 0
    THEN [data |-> d, report |-> [ReportHeader(d) EXCEPT !.raised = TRUE]]
    ELSE LET sessions == d.agent_daily_sessions
             after == [d EXCEPT !.dispositions = FunnelTouch(@)]
         IN  [data |-> after,
              report |-> [ReportHeader(d) EXCEPT
                  !.total_phone_time = TotalPhoneTime(sessions, SessionPairs(sessions)),
                  !.weekly = WeeklySessions(sessions, SessionPairs(sessions), EmptyTable),
                  !.funnel = Some(Funnel(d)),
                  !.sessions = SessionRows(sessions),
                  !.dispositions = DOMAIN after.dispositions,
                  !.leads = Len(d.interested_leads)]]

(***************************************************************************)
(* export_csv                                                              *)
(***************************************************************************)
NoCsv == [raised |-> FALSE, files |-> {}, dispositions |-> EmptyTable,
          sessions |-> EmptyTable]

\* export_csv(data, path): the files created and the rows of the dispositions
\* and agent-sessions files.  The last row of the summary file divides by
\* total_calls.
export_csv(d) ==
    IF d.overall_stats.total_calls = 0
    THEN [NoCsv EXCEPT !.raised = TRUE, !.files = {"summary"}]
    ELSE [raised |-> FALSE,
          files |-> {"summary", "daily", "dispositions", "sources", "campaigns",
                     "area_codes", "agents", "interested_leads", "agent_sessions"},
          dispositions |-> [k \in DOMAIN d.dispositions |->
                               [count |-> d.dispositions[k].count,
                                pct |-> Percent(d.dispositions[k].count,
                                                d.overall_stats.total_calls)]],
          sessions |-> SessionRows(d.agent_daily_sessions)]

(***************************************************************************)
(* main: analyze_calls, then print_report, then export_csv.                *)
(***************************************************************************)
Init ==
    /\ pc = "reading"
    /\ error = ""
    /\ fieldnames \in Headers
    /\ data = InitialData
    /\ history = <<>>
    /\ returned = None
    /\ report = NoReport
    /\ csvout = NoCsv
    /\ text = <<>>
    /\ parsed = None
    /\ amount = 0

\* one turn of "for row in reader": history lists the rows folded so far
ReadRow ==
    /\ pc = "reading"
    /\ Len(history) < MaxRows
    /\ \E i \in 1..Len(Rows) :
         LET n == Normalize(Rows[i], fieldnames) IN
         /\ data' = Fold(data, n)
         /\ IF n.error # ""
            THEN pc' = "raised" /\ error' = n.error /\ history' = history
            ELSE pc' = "reading" /\ error' = error /\ history' = Append(history, i)
    /\ UNCHANGED <<fieldnames, returned, report, csvout, text, parsed, amount>>

\* the reader is exhausted: analyze_calls returns the tables
Return ==
    /\ pc = "reading"
    /\ pc' = "analyzed"
    /\ returned' = Some(data)
    /\ UNCHANGED <<error, fieldnames, data, history, report, csvout, text, parsed, amount>>

PrintReport ==
    /\ pc = "analyzed"
    /\ LET r == print_report(data) IN
       /\ data' = r.data
       /\ report' = r.report
       /\ IF r.report.raised
          THEN pc' = "raised" /\ error' = "ZeroDivisionError"
          ELSE pc' = "reported" /\ error' = error
    /\ UNCHANGED <<fieldnames, history, returned, csvout, text, parsed, amount>>

ExportCsv ==
    /\ pc = "reported"
    /\ csvout' = export_csv(data)
    /\ IF csvout'.raised
       THEN pc' = "raised" /\ error' = "ZeroDivisionError"
       ELSE pc' = "exported" /\ error' = error
    /\ UNCHANGED <<fieldnames, data, history, returned, report, text, parsed, amount>>

Next == ReadRow \/ Return \/ PrintReport \/ ExportCsv

Spec == Init /\ [][Next]_vars

(***************************************************************************)
(* parse_duration on its own: every text of at most MaxLen characters.     *)
(***************************************************************************)
Alphabet == {"0", "1", "5", ":", "-", "a"}

Texts == UNION {[1..k -> Alphabet] : k \in 0..MaxLen}

InitDuration ==
    /\ pc = "parse"
    /\ error = ""
    /\ fieldnames = AllColumns
    /\ data = InitialData
    /\ history = <<>>
    /\ returned = None
    /\ report = NoReport
    /\ csvout = NoCsv
    /\ text \in Texts
    /\ parsed = None
    /\ amount = 0

ParseDuration ==
    /\ pc = "parse"
    /\ parsed' = Some(parse_duration(text))
    /\ pc' = IF parse_duration(text).raised THEN "raised" ELSE "parsed"
    /\ error' = IF parse_duration(text).raised THEN "ValueError" ELSE error
    /\ UNCHANGED <<fieldnames, data, history, returned, report, csvout, text, amount>>

NextDuration == ParseDuration

SpecDuration == InitDuration /\ [][NextDuration]_vars

(***************************************************************************)
(* format_duration, then parse_duration of its text: every number of       *)
(* seconds up to MaxSeconds.                                               *)
(***************************************************************************)
InitRoundTrip ==
    /\ pc = "format"
    /\ error = ""
    /\ fieldnames = AllColumns
    /\ data = InitialData
    /\ history = <<>>
    /\ returned = None
    /\ report = NoReport
    /\ csvout = NoCsv
    /\ text = <<>>
    /\ parsed = None
    /\ amount \in 0..MaxSeconds

FormatDuration ==
    /\ pc = "format"
    /\ text' = format_duration(amount)
    /\ pc' = "parse"
    /\ UNCHANGED <<error, fieldnames, data, history, returned, report, csvout,
                   parsed, amount>>

NextRoundTrip == FormatDuration \/ ParseDuration

SpecRoundTrip == InitRoundTrip /\ [][NextRoundTrip]_vars

(***************************************************************************)
(* The stream behind the tables: the rows folded so far, as the loop saw   *)
(* them.                                                                   *)
(***************************************************************************)
\* the locals of every row under every header, computed once
Locals == [h \in Headers |-> [i \in 1..Len(Rows) |-> Normalize(Rows[i], h)]]

Folded(i) == Locals[fieldnames][history[i]]

\* positions of the rows with a parsed timestamp
Dated == {i \in 1..Len(history) : Folded(i).date_obj # None}

TimeOf(i) == Val(Folded(i).date_obj)

\* positions of the timestamped calls of one agent on one calendar day
CallsOf(agent, date_key) ==
    {i \in Dated : Folded(i).agent = agent /\ DateKey(TimeOf(i)) = date_key}

AgentDays == {<<Folded(i).agent, DateKey(TimeOf(i))>> : i \in Dated}

SessionAt(p) == data.agent_daily_sessions[p[1]][p[2]]

Sessions == SessionPairs(data.agent_daily_sessions)

\* positions of the calls of an agent-day that carry its latest timestamp
LatestOf(p) ==
    {i \in CallsOf(p[1], p[2]) : \A j \in CallsOf(p[1], p[2]) : TimeOf(j) <= TimeOf(i)}

EarliestOf(p) ==
    {i \in CallsOf(p[1], p[2]) : \A j \in CallsOf(p[1], p[2]) : TimeOf(i) <= TimeOf(j)}

MinOf(S) == CHOOSE i \in S : \A j \in S : i <= j
MaxOf(S) == CHOOSE i \in S : \A j \in S : j <= i

Total(t, field) == SumOver(t, DOMAIN t, field)

(***************************************************************************)
(* Properties.                                                             *)
(***************************************************************************)

\* C1: in every report the funnel narrows: connected >= live conversations
\* >= interested, for every stream of rows.
FunnelMonotone ==
    report.funnel # None =>
        /\ Val(report.funnel).connected >= Val(report.funnel).live
        /\ Val(report.funnel).live >= Val(report.funnel).interested

SnapshotUnchanged == returned # None => data = Val(returned)

\* C4: a file of zero rows is analysed, reported and exported without an
\* exception.
EmptyInputCompletes ==
    (returned # None /\ history = <<>>) => pc # "raised"

\* C5 as stated: among the calls of an agent-day that share its latest
\* timestamp the last one in the stream gives last_call_duration, and
\* first_call is the earliest timestamp.
TieLastWins ==
    \A p \in Sessions :
        /\ SessionAt(p).last_call_duration = Folded(MaxOf(LatestOf(p))).duration
        /\ Val(SessionAt(p).first_call) = TimeOf(MinOf(EarliestOf(p)))

\* C5 as amended: among the calls of an agent-day that share its latest
\* timestamp the first one in the stream gives last_call_duration (a tie
\* replaces neither bound), and first_call is the earliest timestamp.
TieFirstWins ==
    \A p \in Sessions :
        /\ SessionAt(p).last_call_duration = Folded(MinOf(LatestOf(p))).duration
        /\ Val(SessionAt(p).last_call) = TimeOf(MinOf(LatestOf(p)))
        /\ Val(SessionAt(p).first_call) = TimeOf(MinOf(EarliestOf(p)))

\* C5 witness: two calls of one agent-day share its latest timestamp and
\* differ in duration.
TieWitness ==
    \E p \in Sessions :
        \E i, j \in LatestOf(p) :
            i < j /\ Folded(i).duration # Folded(j).duration

\* C6: the sessions are those of the agent-days with a timestamped call;
\* first_call is the earliest and last_call the latest timestamp of the
\* agent-day, and last_call_duration is the duration of one of its calls
\* made at last_call.
SessionTracksCalls ==
    /\ Sessions = AgentDays
    /\ \A p \in Sessions :
         LET calls == CallsOf(p[1], p[2]) IN
         /\ \A i \in calls : /\ Val(SessionAt(p).first_call) <= TimeOf(i)
                             /\ TimeOf(i) <= Val(SessionAt(p).last_call)
         /\ \E i \in calls : TimeOf(i) = Val(SessionAt(p).first_call)
         /\ \E i \in calls : /\ TimeOf(i) = Val(SessionAt(p).last_call)
                             /\ Folded(i).duration = SessionAt(p).last_call_duration

\* C6 witness: last_call advanced to a later call of another duration.
SessionAdvancedWitness ==
    \E p \in Sessions :
        \E i, j \in CallsOf(p[1], p[2]) :
            /\ i < j
            /\ TimeOf(i) < TimeOf(j)
            /\ Folded(i).duration # Folded(j).duration
            /\ Val(SessionAt(p).last_call) = TimeOf(j)

\* the texts of two or three colon-separated integers (the code checks
\* neither sign nor range of a part)
IsClock(s) ==
    /\ Len(Split(s)) \in {2, 3}
    /\ \A k \in 1..Len(Split(s)) : IntOk(Split(s)[k])

ClockSeconds(s) ==
    LET parts == Split(s) IN
    IF Len(parts) = 2 THEN IntValue(parts[1]) * 60 + IntValue(parts[2])
    ELSE IntValue(parts[1]) * 3600 + IntValue(parts[2]) * 60 + IntValue(parts[3])

\* C7: parse_duration never raises; it returns the seconds of M:SS and
\* H:MM:SS and 0 for every other text, also for one whose two or three
\* parts are not integers.
DurationNeverRaises ==
    parsed # None =>
        /\ ~ Val(parsed).raised
        /\ Val(parsed).value = IF IsClock(text) THEN ClockSeconds(text) ELSE 0

\* C8: a row whose processing raises changes no table: the tables are those
\* left by the row before it.
AllOrNothing ==
    [][(pc = "reading" /\ pc' = "raised") => data' = data]_vars

\* C8 witness: a row raised after other rows had been folded.
AllOrNothingWitness ==
    /\ pc = "raised"
    /\ error \in {"KeyError", "ValueError"}
    /\ history # <<>>

TimeTables(d) ==
    <<d.hourly_stats, d.day_of_week_stats, d.daily_conversions,
      d.agent_daily_sessions, d.min_date, d.max_date>>

\* the call totals of the tables that do not depend on time
PlainTotals(d) ==
    <<Total(d.agents, "total_calls"), Total(d.dispositions, "count"),
      d.overall_stats.total_calls, Total(d.sources, "total"),
      Total(d.campaigns, "total"), Total(d.area_codes, "total")>>

\* a row without timestamp adds one to each total of PlainTotals and leaves
\* the time-based state alone
UndatedRow ==
    (/\ pc = "reading"
     /\ Len(history') = Len(history) + 1
     /\ Locals[fieldnames][history'[Len(history')]].date_obj = None)
    => /\ TimeTables(data') = TimeTables(data)
       /\ \A k \in 1..6 : PlainTotals(data')[k] = PlainTotals(data)[k] + 1

\* the time-based totals count the rows with a timestamp, the others all rows
TotalsBalance ==
    /\ Total(data.hourly_stats, "total") = Cardinality(Dated)
    /\ Total(data.day_of_week_stats, "total") = Cardinality(Dated)
    /\ Total(data.daily_conversions, "total") = Cardinality(Dated)
    /\ Total(data.sources, "total") = Len(history)
    /\ Total(data.campaigns, "total") = Len(history)
    /\ Total(data.area_codes, "total") = Len(history)
    /\ data.overall_stats.total_calls = Len(history)

\* C9: a row without a parsed timestamp adds exactly one to the agent,
\* disposition, overall, source, campaign and area-code totals and changes
\* no time-based state; the hourly, weekday and daily totals sum to the
\* number of timestamped rows, the source, campaign and area-code totals to
\* the number of rows.
UndatedExcluded == [][UndatedRow]_vars /\ []TotalsBalance

\* C9 witness: rows with and without timestamp were folded.
UndatedWitness ==
    /\ Dated # {}
    /\ Cardinality(Dated) < Len(history)

\* C10: the per-disposition counts sum to total_calls.
DispositionsSum ==
    Total(data.dispositions, "count") = data.overall_stats.total_calls

\* C10 witness: a disposition counted twice next to the empty disposition,
\* counted as Unknown.
DispositionsSumWitness ==
    /\ "Unknown" \in DOMAIN data.dispositions
    /\ Cardinality(DOMAIN data.dispositions) >= 2
    /\ \E k \in DOMAIN data.dispositions : data.dispositions[k].count >= 2

RECURSIVE SumCounts(_, _)
\* sum of d[k] over the keys in ks, of a defaultdict(int)
SumCounts(d, ks) ==
    IF ks = {} THEN 0
    ELSE LET k == CHOOSE x \in ks : TRUE IN d[k] + SumCounts(d, ks \ {k})

\* C11: the per-agent total_calls sum to the overall total_calls, and the
\* per-disposition counts of every agent sum to that agent's total_calls.
AgentsSum ==
    /\ Total(data.agents, "total_calls") = data.overall_stats.total_calls
    /\ \A a \in DOMAIN data.agents :
         SumCounts(data.agents[a].dispositions,
                   DOMAIN data.agents[a].dispositions)
           = data.agents[a].total_calls

\* C11 witness: two agents, one of them with two calls of one disposition.
AgentsSumWitness ==
    /\ Cardinality(DOMAIN data.agents) >= 2
    /\ \E a \in DOMAIN data.agents :
         \E k \in DOMAIN data.agents[a].dispositions :
             data.agents[a].dispositions[k] >= 2

RECURSIVE Run(_, _)
\* the loop of analyze_calls over the rows listed in rows, from acc
Run(acc, rows) ==
    IF rows = <<>> THEN acc
    ELSE Run(Fold(acc, Locals[fieldnames][Head(rows)]), Tail(rows))

\* the counts and duration sums of the result: every table but the
\* sessions, the date range and the interested leads
Counts(d) ==
    <<d.overall_stats, d.agents, d.dispositions, d.sources, d.campaigns,
      d.area_codes, d.hourly_stats, d.day_of_week_stats, d.daily_conversions>>

\* the rows of history in ascending order: the same multiset of rows for
\* every permutation of a stream
Sorted(rows) == SortSeq(rows, LAMBDA x, y : x < y)

\* C12: the counts and duration sums analyze_calls returns are those of
\* the same rows read in ascending order, so every permutation of a stream
\* returns the same counts.
OrderIndependent ==
    pc = "analyzed" => Counts(Val(returned)) = Counts(Run(InitialData, Sorted(history)))

\* C12 witness: a returned stream of three different rows, not in order,
\* that fills the time tables and the leads.
OrderIndependentWitness ==
    /\ pc = "analyzed"
    /\ Len(history) >= 3
    /\ history[1] > history[2] /\ history[2] > history[3]
    /\ Val(returned).daily_conversions # EmptyTable
    /\ Val(returned).overall_stats.total_duration > 0
    /\ Len(Val(returned).interested_leads) >= 1

RECURSIVE SumOf(_, _)
\* sum of f[x] over the x in S
SumOf(S, f) ==
    IF S = {} THEN 0
    ELSE LET x == CHOOSE y \in S : TRUE IN f[x] + SumOf(S \ {x}, f)

Reported == report.funnel # None

\* the sessions dated Monday to Friday, and those dated on a weekend
WeekdaySessions == {p \in Sessions : WeekdayOf(KeyDate(p[2])) < 5}
WeekendSessions == Sessions \ WeekdaySessions

\* the Monday of the week of a date key
MondayOf(date_key) == DateKey(KeyDate(date_key) - WeekdayOf(KeyDate(date_key)) * 1440)

\* the span and the talk time of every session, the phone_time and the
\* talk_time of every weekly bucket
SpanOf == [p \in Sessions |-> SessionSeconds(SessionAt(p))]
TalkOf == [p \in Sessions |-> SessionAt(p).talk_time]
PhoneTimeOf == [w \in DOMAIN report.weekly |-> report.weekly[w].phone_time]
TalkTimeOf == [w \in DOMAIN report.weekly |-> report.weekly[w].talk_time]

\* C13: a session dated on a Saturday or Sunday adds nothing to the weekly
\* rollup: no bucket holds its date among days_worked, every bucket is the
\* week of a Monday-to-Friday session, and the phone_time and talk_time of
\* all buckets together are those of the Monday-to-Friday sessions alone.
WeekendExcluded ==
    Reported =>
        /\ \A w \in DOMAIN report.weekly :
             /\ \A p \in WeekendSessions : p[2] \notin report.weekly[w].days_worked
             /\ \E p \in WeekdaySessions : MondayOf(p[2]) = w
        /\ SumOf(DOMAIN report.weekly, PhoneTimeOf) = SumOf(WeekdaySessions, SpanOf)
        /\ SumOf(DOMAIN report.weekly, TalkTimeOf) = SumOf(WeekdaySessions, TalkOf)

\* C13 witness: a report over a Saturday session with time on the phone and
\* a Monday-to-Friday session.
WeekendExcludedWitness ==
    /\ Reported
    /\ \E p \in WeekendSessions : SpanOf[p] > 0 /\ TalkOf[p] > 0
    /\ WeekdaySessions # {}

\* positions of the rows whose disposition is 'Interested'
InterestedAt == {i \in 1..Len(history) : Folded(i).disposition = "Interested"}

\* the k-th position of S in stream order
KthOf(S, k) == CHOOSE i \in S : Cardinality({j \in S : j <= i}) = k

\* the lead entry of the row at position i
LeadOf(i) ==
    [date |-> Folded(i).date_text, to_number |-> Folded(i).to_number,
     crm_link |-> Folded(i).crm_link, crm_contact_id |-> Folded(i).crm_contact_id,
     duration |-> Folded(i).duration_text, campaign |-> Folded(i).campaign]

\* C14: interested_leads holds one entry per 'Interested' row, in stream
\* order and without deduplication, so its length is the overall
\* interested count.
LeadsInOrder ==
    /\ Len(data.interested_leads) = data.overall_stats.interested
    /\ Len(data.interested_leads) = Cardinality(InterestedAt)
    /\ \A k \in 1..Len(data.interested_leads) :
         data.interested_leads[k] = LeadOf(KthOf(InterestedAt, k))

\* C14 witness: two leads of one phone number, and a lead of a row without
\* a parsed timestamp.
LeadsInOrderWitness ==
    /\ \E i, j \in InterestedAt : i < j /\ Folded(i).to_number = Folded(j).to_number
    /\ InterestedAt \ Dated # {}
    /\ Len(data.interested_leads) >= 3

\* the parsed duration of the row at every position
DurationAt == [i \in 1..Len(history) |-> Folded(i).duration]

\* the agents with a session on a calendar day
AgentsOn(date_key) == {p \in Sessions : p[2] = date_key}

\* C15: the talk_time of an agent-day session is the sum of the durations
\* of all timestamped calls of that agent on that day, and on every
\* calendar day the talk_time of all agents together is the duration of
\* daily_conversions for that day.
TalkTimeSums ==
    /\ Sessions = AgentDays
    /\ \A p \in Sessions :
         SessionAt(p).talk_time = SumOf(CallsOf(p[1], p[2]), DurationAt)
    /\ DOMAIN data.daily_conversions = {p[2] : p \in Sessions}
    /\ \A day \in DOMAIN data.daily_conversions :
         SumOf(AgentsOn(day), TalkOf) = data.daily_conversions[day].duration

\* C15 witness: a session whose call between the first and the last one
\* was read after both and has a duration.
TalkTimeSumsWitness ==
    \E p \in Sessions :
        \E i, j, k \in CallsOf(p[1], p[2]) :
            /\ TimeOf(i) < TimeOf(k) /\ TimeOf(k) < TimeOf(j)
            /\ i < k /\ j < k
            /\ DurationAt[k] > 0

\* week_key is a Monday and date_key is that day or one of the four after
InWeek(week_key, date_key) ==
    /\ WeekdayOf(KeyDate(week_key)) = 0
    /\ \E k \in 0..4 : KeyDate(date_key) = KeyDate(week_key) + k * 1440

\* the Monday-to-Friday sessions of the week that starts on week_key
SessionsOfWeek(week_key) == {p \in WeekdaySessions : InWeek(week_key, p[2])}

\* C16: every Monday-to-Friday session is in exactly one weekly bucket, the
\* one keyed by the Monday of its week; a bucket's phone_time and talk_time
\* are the sums of the spans and talk times of its sessions, and its
\* days_worked are their distinct dates.
WeeklyBuckets ==
    Reported =>
        /\ \A p \in WeekdaySessions :
             \E w \in DOMAIN report.weekly :
                 /\ InWeek(w, p[2])
                 /\ \A v \in DOMAIN report.weekly :
                        p[2] \in report.weekly[v].days_worked <=> v = w
        /\ \A w \in DOMAIN report.weekly :
             /\ SessionsOfWeek(w) # {}
             /\ report.weekly[w].phone_time = SumOf(SessionsOfWeek(w), SpanOf)
             /\ report.weekly[w].talk_time = SumOf(SessionsOfWeek(w), TalkOf)
             /\ report.weekly[w].days_worked = {p[2] : p \in SessionsOfWeek(w)}

\* C16 witness: a report with two agents on one date in one bucket, and a
\* second bucket for a session dated after the Monday of its week.
WeeklyBucketsWitness ==
    /\ Reported
    /\ \E w \in DOMAIN report.weekly :
         \E p, q \in SessionsOfWeek(w) :
             /\ p[1] # q[1] /\ p[2] = q[2]
             /\ Cardinality(report.weekly[w].days_worked) = 1
             /\ report.weekly[w].phone_time > 0
    /\ \E w \in DOMAIN report.weekly : \E p \in SessionsOfWeek(w) : p[2] # w

\* the parsed timestamps of the stream
Stamps == {TimeOf(i) : i \in Dated}

\* C17: min_date and max_date are the least and the greatest of the
\* parsed timestamps; both are None exactly when no row has one, and
\* otherwise min_date <= max_date and the first_call and last_call of
\* every session lie between them.
DateRangeBounds ==
    /\ data.min_date = None <=> Dated = {}
    /\ data.max_date = None <=> Dated = {}
    /\ Dated # {} =>
         /\ Val(data.min_date) \in Stamps
         /\ Val(data.max_date) \in Stamps
         /\ \A t \in Stamps : Val(data.min_date) <= t /\ t <= Val(data.max_date)
         /\ Val(data.min_date) <= Val(data.max_date)
         /\ \A p \in Sessions :
              /\ Val(data.min_date) <= Val(SessionAt(p).first_call)
              /\ Val(SessionAt(p).last_call) <= Val(data.max_date)

\* C17 witness: a row without a parsed timestamp was read, and a later row
\* carried a timestamp earlier than all before it.
DateRangeBoundsWitness ==
    /\ Dated # 1..Len(history)
    /\ \E j \in Dated :
         /\ \E i \in Dated : i < j
         /\ \A i \in Dated : i < j => TimeOf(j) < TimeOf(i)
         /\ Val(data.min_date) = TimeOf(j)
    /\ Val(data.min_date) < Val(data.max_date)

\* C18: parse_duration reads the text format_duration writes for n back
\* to n, for every n >= 0: M:SS below one hour, H:MM:SS from one hour on.
RoundTrip ==
    parsed # None =>
        /\ ~ Val(parsed).raised
        /\ Val(parsed).value = amount
        /\ Len(Split(text)) = IF amount < 3600 THEN 2 ELSE 3

\* C18 witness: a duration of more than an hour with minutes and seconds
\* was written as H:MM:SS and read back.
RoundTripWitness ==
    /\ parsed # None
    /\ amount >= 3600 /\ (amount % 3600) \div 60 > 0 /\ amount % 60 > 0
    /\ text = format_duration(amount)

====
